---- MODULE Spec2Model ----
(***************************************************************************)
(* Model of the spatial-grid matcher of clean_router.py (the optimized     *)
(* matcher, the brute-force reference and the comparison made by main)     *)
(* and of the TTL cache decorator of cache_solution.py.                    *)
(*                                                                         *)
(* Numbers.  Coordinates and max_distance are Python numbers that may be   *)
(* non-integer.  The model keeps every such number as an integer count of  *)
(* 1/Scale units (x = 3 with Scale = 4 stands for 0.75), so arithmetic is  *)
(* exact.  cell_size and the grid keys are true integers, as in the code.  *)
(* Squared distances are kept in 1/Scale^2 units.  Floating-point rounding *)
(* of math.sqrt and ** is outside the model.                               *)
(***************************************************************************)
EXTENDS Integers, Sequences, FiniteSets, TLC

\* Resolution of the fixed-point representation: one unit is 1/Scale.
Scale == 4
\* Longest driver list and longest package list drawn as input.
MaxDrivers == 2
MaxPackages == 2

VARIABLES
    drivers,        \* input list of Driver records
    packages,       \* input list of Package records
    max_distance,   \* input threshold, in 1/Scale units
    pc,             \* position of the run
    cell_size,      \* local cell_size of find_matches_optimized
    grid,           \* local grid: key <<cx, cy>> -> list of packages
    idx,            \* position of the running for loop
    matches,        \* local matches of find_matches_optimized
    matches_bf,     \* result of find_matches_brute_force
    cache,          \* MockRedis.cache: key -> [value, expiry]
    now,            \* time.time()
    ttl_seconds,    \* argument of cache_response
    calls,          \* number of calls of the wrapper
    executions,     \* number of executions of the wrapped function
    last_key,       \* cache_key of the latest call
    last_result,    \* what the wrapped function returned in the latest call
    last_ret        \* what the wrapper returned in the latest call

matcher_vars == <<drivers, packages, max_distance, pc, cell_size, grid, idx,
                  matches, matches_bf>>
cache_vars == <<cache, now, ttl_seconds, calls, executions, last_key,
                last_result, last_ret>>
vars == <<drivers, packages, max_distance, pc, cell_size, grid, idx,
          matches, matches_bf, cache, now, ttl_seconds, calls, executions,
          last_key, last_result, last_ret>>

(***************************************************************************)
(* Inputs                                                                  *)
(***************************************************************************)

\* Positions a driver may take: the origin, a point with a negative
\* non-integer x, and the integer point 1.0 on the x axis.
DriverPoints == {<<0, 0>>, <<-1, 0>>, <<Scale, 0>>}

\* Positions a package may take: those of the drivers, a point with a negative
\* non-integer y, a non-integer point just below 1.0 and the integer point 2.0
\* on the x axis.
PackagePoints == DriverPoints \cup {<<0, -1>>, <<Scale - 1, 0>>, <<2 * Scale, 0>>}

\* Thresholds: -1.0, 0, 0.5, 1.0, a non-integer value just below 2.0, 2.0.
Thresholds == {-Scale, 0, Scale \div 2, Scale, 2 * Scale - 1, 2 * Scale}

Driver(i, pt) == [id |-> i, x |-> pt[1], y |-> pt[2]]

Package(j, pt) == [id |-> j, x |-> pt[1], y |-> pt[2], priority |-> "high"]

MatchResult(d, p, dsq) == [driver_id |-> d.id, package_id |-> p.id, dist_sq |-> dsq]

\* Lists as generate_data builds them: the i-th record has id i, from 0.
DriverLists ==
    UNION {{[i \in 1..n |-> Driver(i - 1, pts[i])] : pts \in [1..n -> DriverPoints]}
           : n \in 0..MaxDrivers}

PackageLists ==
    UNION {{[j \in 1..n |-> Package(j - 1, pts[j])] : pts \in [1..n -> PackagePoints]}
           : n \in 0..MaxPackages}

(***************************************************************************)
(* Arithmetic                                                              *)
(***************************************************************************)

Abs(a) == IF a < 0 THEN -a ELSE a

\* Python's a // b on exact numbers: the floor of a / b, b # 0.
FloorDiv(a, b) == IF b > 0 THEN a \div b ELSE (-a) \div (-b)

\* Python's int(v) for the number v = units / Scale: truncation toward zero.
IntOf(units) == IF units >= 0 THEN units \div Scale ELSE -((-units) \div Scale)

\* (driver.x - pkg.x)**2 + (driver.y - pkg.y)**2
DistSq(d, p) == (d.x - p.x) * (d.x - p.x) + (d.y - p.y) * (d.y - p.y)

\* math.sqrt(r) < m over the reals.
SqrtLess(r, m) == m > 0 /\ r < m * m

(***************************************************************************)
(* find_matches_brute_force                                                *)
(***************************************************************************)

BruteHit(d, p, md) == SqrtLess(DistSq(d, p), md)

BruteRow(d, pkgs, md) ==
    LET hits == SelectSeq(pkgs, LAMBDA p : BruteHit(d, p, md))
    IN  [n \in 1..Len(hits) |-> MatchResult(d, hits[n], DistSq(d, hits[n]))]

RECURSIVE BruteRows(_, _, _, _)
BruteRows(drvs, pkgs, md, n) ==
    IF n > Len(drvs) THEN <<>>
    ELSE BruteRow(drvs[n], pkgs, md) \o BruteRows(drvs, pkgs, md, n + 1)

find_matches_brute_force(drvs, pkgs, md) == BruteRows(drvs, pkgs, md, 1)

(***************************************************************************)
(* find_matches_optimized                                                  *)
(***************************************************************************)

\* cell_size = int(max_distance)
CellSizeOf(md) == IntOf(md)

\* A plausible slip: int(x / cell_size), which truncates toward zero.
get_grid_key_truncating(x, y, cs) ==
    LET t(a) == IF (a >= 0) = (cs > 0)
                THEN Abs(a) \div (Scale * Abs(cs))
                ELSE -(Abs(a) \div (Scale * Abs(cs)))
    IN  <<t(x), t(y)>>

\* (int(x // cell_size), int(y // cell_size)), for cell_size # 0.
get_grid_key(x, y, cs) == <<FloorDiv(x, Scale * cs), FloorDiv(y, Scale * cs)>>

\* grid[key].append(pkg) on a defaultdict(list)
GridAppend(g, key, pkg) ==
    IF key \in DOMAIN g THEN [g EXCEPT ![key] = Append(@, pkg)]
    ELSE [c \in DOMAIN g \cup {key} |-> IF c = key THEN <<pkg>> ELSE g[c]]

\* range(-1, 2)
Offsets == <<-1, 0, 1>>

\* A plausible slip: range(-1, 1).
NeighborKeysShortRange(dkey) ==
    [n \in 1..4 |-> <<dkey[1] + Offsets[((n - 1) \div 2) + 1],
                      dkey[2] + Offsets[((n - 1) % 2) + 1]>>]

\* A plausible slip: the j loop outside the i loop.
NeighborKeysJOuter(dkey) ==
    LET m == Len(Offsets)
    IN  [n \in 1..(m * m) |-> <<dkey[1] + Offsets[((n - 1) % m) + 1],
                               dkey[2] + Offsets[((n - 1) \div m) + 1]>>]

\* The keys (dx_grid + i, dy_grid + j) in the order of the nested loops,
\* i outside and j inside.
NeighborKeys(dkey) ==
    LET m == Len(Offsets)
    IN  [n \in 1..(m * m) |-> <<dkey[1] + Offsets[((n - 1) \div m) + 1],
                               dkey[2] + Offsets[((n - 1) % m) + 1]>>]

\* A plausible slip: reading grid[neighbor_key] without the membership test,
\* which makes a defaultdict create the empty bucket.
GridAfterIndexing(g, key) ==
    IF key \in DOMAIN g THEN g
    ELSE [c \in DOMAIN g \cup {key} |-> IF c = key THEN <<>> ELSE g[c]]

\* The grid after `neighbor_key in grid`: a membership test creates nothing.
GridAfterProbe(g, key) == g

\* A plausible slip: an inclusive final test, dist_sq <= max_distance**2.
GridHitInclusive(d, p, md) ==
    /\ Abs(d.x - p.x) <= md
    /\ Abs(d.y - p.y) <= md
    /\ DistSq(d, p) <= md * md

\* The bounding-box pre-check and the strict distance test.
GridHit(d, p, md) ==
    /\ Abs(d.x - p.x) <= md
    /\ Abs(d.y - p.y) <= md
    /\ DistSq(d, p) < md * md

\* for pkg in grid[neighbor_key]: the matches of one bucket, in bucket order.
BucketMatches(d, bucket, md) ==
    LET hits == SelectSeq(bucket, LAMBDA p : GridHit(d, p, md))
    IN  [n \in 1..Len(hits) |-> MatchResult(d, hits[n], DistSq(d, hits[n]))]

RECURSIVE ScanCells(_, _, _, _, _)
ScanCells(d, g, md, keys, n) ==
    IF n > Len(keys) THEN <<>>
    ELSE (IF keys[n] \in DOMAIN g THEN BucketMatches(d, g[keys[n]], md) ELSE <<>>)
         \o ScanCells(d, g, md, keys, n + 1)

RECURSIVE ProbeCells(_, _, _)
ProbeCells(g, keys, n) ==
    IF n > Len(keys) THEN g
    ELSE ProbeCells(GridAfterProbe(g, keys[n]), keys, n + 1)

EmptyGrid == [c \in {} |-> <<>>]

\* main: the brute-force reference runs first.
BruteForce ==
    /\ pc = "brute_force"
    /\ matches_bf' = find_matches_brute_force(drivers, packages, max_distance)
    /\ pc' = "start"
    /\ UNCHANGED <<drivers, packages, max_distance, cell_size, grid, idx, matches>>
    /\ UNCHANGED cache_vars

\* Entry of find_matches_optimized up to the first loop.
Begin ==
    /\ pc = "start"
    /\ cell_size' = CellSizeOf(max_distance)
    /\ grid' = EmptyGrid
    /\ idx' = 1
    /\ pc' = "build"
    /\ UNCHANGED <<drivers, packages, max_distance, matches, matches_bf>>
    /\ UNCHANGED cache_vars

\* One iteration of `for pkg in packages`.
InsertPackage ==
    /\ pc = "build"
    /\ idx <= Len(packages)
    /\ cell_size # 0
    /\ LET pkg == packages[idx]
           key == get_grid_key(pkg.x, pkg.y, cell_size)
       IN  grid' = GridAppend(grid, key, pkg)
    /\ idx' = idx + 1
    /\ UNCHANGED <<drivers, packages, max_distance, pc, cell_size, matches, matches_bf>>
    /\ UNCHANGED cache_vars

\* x // 0 raises ZeroDivisionError before anything is appended.
InsertPackageRaises ==
    /\ pc = "build"
    /\ idx <= Len(packages)
    /\ cell_size = 0
    /\ pc' = "ZeroDivisionError"
    /\ UNCHANGED <<drivers, packages, max_distance, cell_size, grid, idx, matches,
                   matches_bf>>
    /\ UNCHANGED cache_vars

\* End of the first loop; matches = [].
BuildDone ==
    /\ pc = "build"
    /\ idx > Len(packages)
    /\ matches' = <<>>
    /\ idx' = 1
    /\ pc' = "query"
    /\ UNCHANGED <<drivers, packages, max_distance, cell_size, grid, matches_bf>>
    /\ UNCHANGED cache_vars

\* One iteration of `for driver in drivers`: the nine probes and their matches.
QueryDriver ==
    /\ pc = "query"
    /\ idx <= Len(drivers)
    /\ cell_size # 0
    /\ LET driver == drivers[idx]
           d_key == get_grid_key(driver.x, driver.y, cell_size)
           keys == NeighborKeys(d_key)
       IN  /\ matches' = matches \o ScanCells(driver, grid, max_distance, keys, 1)
           /\ grid' = ProbeCells(grid, keys, 1)
    /\ idx' = idx + 1
    /\ UNCHANGED <<drivers, packages, max_distance, pc, cell_size, matches_bf>>
    /\ UNCHANGED cache_vars

\* With no package the first division by a zero cell_size is the driver's.
QueryDriverRaises ==
    /\ pc = "query"
    /\ idx <= Len(drivers)
    /\ cell_size = 0
    /\ pc' = "ZeroDivisionError"
    /\ UNCHANGED <<drivers, packages, max_distance, cell_size, grid, idx, matches,
                   matches_bf>>
    /\ UNCHANGED cache_vars

\* return matches
Return ==
    /\ pc = "query"
    /\ idx > Len(drivers)
    /\ pc' = "returned"
    /\ UNCHANGED <<drivers, packages, max_distance, cell_size, grid, idx, matches,
                   matches_bf>>
    /\ UNCHANGED cache_vars

\* main: assert len(matches_bf) == len(matches_opt)
CheckLengths ==
    /\ pc = "returned"
    /\ pc' = IF Len(matches_bf) = Len(matches) THEN "passed" ELSE "AssertionError"
    /\ UNCHANGED <<drivers, packages, max_distance, cell_size, grid, idx, matches,
                   matches_bf>>
    /\ UNCHANGED cache_vars

CacheIdle ==
    /\ cache = EmptyGrid
    /\ now = 0
    /\ ttl_seconds = 0
    /\ calls = 0
    /\ executions = 0
    /\ last_key = <<>>
    /\ last_result = "None"
    /\ last_ret = "None"

Init ==
    /\ drivers \in DriverLists
    /\ packages \in PackageLists
    /\ max_distance \in Thresholds
    /\ pc = "brute_force"
    /\ cell_size = 0
    /\ grid = EmptyGrid
    /\ idx = 1
    /\ matches = <<>>
    /\ matches_bf = <<>>
    /\ CacheIdle

Next ==
    \/ BruteForce
    \/ Begin
    \/ InsertPackage
    \/ InsertPackageRaises
    \/ BuildDone
    \/ QueryDriver
    \/ QueryDriverRaises
    \/ Return
    \/ CheckLengths

Spec == Init /\ [][Next]_vars

(***************************************************************************)
(* cache_solution.py: MockRedis and the cache_response decorator           *)
(***************************************************************************)

\* Latest clock value, most calls of the wrapper, largest ttl_seconds and
\* longest run of the wrapped function that the model explores.
MaxTime == 4
MaxCalls == 3
MaxTTL == 2
MaxDuration == 1

\* Python values the wrapped function takes and returns.
PyValues == {"None", "int 0", "list [1, 2]", "tuple (1, 2)"}

\* json.dumps: a tuple is written as a JSON array, like a list.
JsonDumps(v) ==
    CASE v = "None" -> "null"
      [] v = "int 0" -> "0"
      [] v = "list [1, 2]" -> "[1, 2]"
      [] v = "tuple (1, 2)" -> "[1, 2]"

\* json.loads: a JSON array is read as a list.
JsonLoads(s) ==
    CASE s = "null" -> "None"
      [] s = "0" -> "int 0"
      [] s = "[1, 2]" -> "list [1, 2]"

\* f"{func.__name__}:{json.dumps([args, kwargs], sort_keys=True)}" for a call
\* with the one positional argument arg: the name and the argument's JSON text.
CacheKey(arg) == <<"get_routes", JsonDumps(arg)>>

\* Optional[str]
NoValue == [some |-> FALSE, v |-> ""]

SomeValue(s) == [some |-> TRUE, v |-> s]

\* `if cached_value:` on an Optional[str]
Truthy(o) == o.some /\ o.v # ""

\* A plausible slip: time.time() >= expiry.
ExpiredInclusive(entry, t) == entry.expiry # 0 /\ t >= entry.expiry

\* `expiry and time.time() > expiry`
Expired(entry, t) == entry.expiry # 0 /\ t > entry.expiry

\* MockRedis.get: the value it returns.
RedisGetValue(c, name, t) ==
    IF name \notin DOMAIN c THEN NoValue
    ELSE IF Expired(c[name], t) THEN NoValue
    ELSE SomeValue(c[name].value)

\* MockRedis.get: the cache it leaves (an expired entry is deleted).
RedisGetCache(c, name, t) ==
    IF name \in DOMAIN c /\ Expired(c[name], t)
    THEN [n \in DOMAIN c \ {name} |-> c[n]]
    ELSE c

\* MockRedis.set
RedisSet(c, name, value, ex, t) ==
    LET expiry == IF ex > 0 THEN t + ex ELSE 0
    IN  [n \in DOMAIN c \cup {name} |->
            IF n = name THEN [value |-> value, expiry |-> expiry] ELSE c[n]]

\* One call wrapper(arg).  On a miss the wrapped function returns `result`
\* after `duration` units of time, so MockRedis.set reads the later clock.
Call(arg, result, duration) ==
    /\ calls < MaxCalls
    /\ LET cache_key == CacheKey(arg)
           cached_value == RedisGetValue(cache, cache_key, now)
           after_get == RedisGetCache(cache, cache_key, now)
       IN  /\ last_key' = cache_key
           /\ IF Truthy(cached_value)
              THEN /\ last_ret' = JsonLoads(cached_value.v)
                   /\ cache' = after_get
                   /\ UNCHANGED <<now, executions, last_result>>
              ELSE /\ now + duration <= MaxTime
                   /\ now' = now + duration
                   /\ executions' = executions + 1
                   /\ last_result' = result
                   /\ cache' = RedisSet(after_get, cache_key, JsonDumps(result),
                                        ttl_seconds, now + duration)
                   /\ last_ret' = result
    /\ calls' = calls + 1
    /\ UNCHANGED ttl_seconds
    /\ UNCHANGED matcher_vars

\* Time passes between two calls.
Tick ==
    /\ now < MaxTime
    /\ now' = now + 1
    /\ UNCHANGED <<cache, ttl_seconds, calls, executions, last_key, last_result,
                   last_ret>>
    /\ UNCHANGED matcher_vars

MatcherIdle ==
    /\ drivers = <<>>
    /\ packages = <<>>
    /\ max_distance = 0
    /\ pc = "idle"
    /\ cell_size = 0
    /\ grid = EmptyGrid
    /\ idx = 1
    /\ matches = <<>>
    /\ matches_bf = <<>>

\* redis_client = MockRedis() and a function decorated with some ttl_seconds.
CacheInit ==
    /\ cache = EmptyGrid
    /\ now = 0
    /\ ttl_seconds \in 0..MaxTTL
    /\ calls = 0
    /\ executions = 0
    /\ last_key = <<>>
    /\ last_result = "None"
    /\ last_ret = "None"
    /\ MatcherIdle

CacheNext ==
    \/ \E arg \in PyValues \ {"None"}, result \in PyValues, duration \in 0..MaxDuration :
          Call(arg, result, duration)
    \/ Tick

CacheSpec == CacheInit /\ [][CacheNext]_vars

(***************************************************************************)
(* Vocabulary of the properties                                            *)
(***************************************************************************)

\* find_matches_optimized has returned its list.
Returned == pc \in {"returned", "passed", "AssertionError"}

\* The grid-building loop has ended.
GridBuilt == pc = "query" \/ Returned

PairSet(ms) == {<<ms[n].driver_id, ms[n].package_id>> : n \in 1..Len(ms)}

\* The input record a match names: ids are list positions counted from 0.
DriverOf(m) == drivers[m.driver_id + 1]

PackageOf(m) == packages[m.package_id + 1]

\* q is the mathematical floor of a / b, b # 0, stated without division.
IsFloorOf(q, a, b) ==
    IF b > 0 THEN q * b <= a /\ a < (q + 1) * b
    ELSE q * b >= a /\ a > (q + 1) * b

\* The places <<key, position>> of the grid that hold package p.
PlacesOf(p) ==
    {place \in UNION {{<<key, n>> : n \in 1..Len(grid[key])} : key \in DOMAIN grid} :
        grid[place[1]][place[2]] = p}

\* Where a match stands in the required order: the driver's position, the
\* offsets i and j of the package's cell from the driver's, the package's
\* position.
Rank(m) ==
    LET d == DriverOf(m)
        p == PackageOf(m)
        dk == get_grid_key(d.x, d.y, cell_size)
        pk == get_grid_key(p.x, p.y, cell_size)
    IN  <<m.driver_id, pk[1] - dk[1], pk[2] - dk[2], m.package_id>>

LexLess(a, b) ==
    \E n \in 1..Len(a) : a[n] < b[n] /\ \A l \in 1..(n - 1) : a[l] = b[l]

AllInteger ==
    /\ \A n \in 1..Len(drivers) : drivers[n].x % Scale = 0 /\ drivers[n].y % Scale = 0
    /\ \A n \in 1..Len(packages) : packages[n].x % Scale = 0 /\ packages[n].y % Scale = 0

(***************************************************************************)
(* Properties                                                              *)
(***************************************************************************)

\* C1: for every input with max_distance > 0, the set of (driver_id,
\* package_id) pairs the optimized matcher returns is the set the brute-force
\* matcher returns.
C1_SamePairSet ==
    (max_distance > 0 /\ Returned) => PairSet(matches) = PairSet(matches_bf)

\* C2: for every input with max_distance > 0 the optimized matcher returns as
\* many records as the brute-force matcher (the assertion of main passes), and
\* no pair twice.
C2_SameCount ==
    max_distance > 0 =>
        /\ pc # "AssertionError"
        /\ Returned =>
              /\ Len(matches) = Len(matches_bf)
              /\ Cardinality(PairSet(matches)) = Len(matches)

\* C3: every record either matcher emits is for a pair whose squared distance
\* is strictly below max_distance squared; a pair at exactly max_distance is
\* never emitted.
C3_ExclusiveBoundary ==
    \A ms \in {matches, matches_bf} : \A n \in 1..Len(ms) :
        /\ ms[n].driver_id \in 0..(Len(drivers) - 1)
        /\ ms[n].package_id \in 0..(Len(packages) - 1)
        /\ DistSq(DriverOf(ms[n]), PackageOf(ms[n])) < max_distance * max_distance

\* C3 witness: the run has returned, a driver and a package lie at exactly
\* max_distance = 1.0 from each other on the x axis and are not matched, while
\* another package is matched.
C3_Witness ==
    /\ Returned
    /\ max_distance = Scale
    /\ matches # <<>>
    /\ \E d \in 1..Len(drivers), p \in 1..Len(packages) :
          /\ drivers[d].y = packages[p].y
          /\ packages[p].x - drivers[d].x = max_distance
          /\ <<drivers[d].id, packages[p].id>> \notin PairSet(matches) \cup PairSet(matches_bf)

\* C4: the optimized matcher's list is in agent-major order, within a driver
\* in the order of the neighbour cells (i outer, j inner), within a cell in
\* the packages' input order.
C4_AgentMajorOrder ==
    \A a \in 1..Len(matches) : \A b \in (a + 1)..Len(matches) :
        LexLess(Rank(matches[a]), Rank(matches[b]))

\* C4 witness: the returned list holds matches of two drivers, and two
\* matches of one driver where the cell order put the later package first.
C4_Witness ==
    /\ Returned
    /\ \E a, b \in 1..Len(matches) : matches[a].driver_id # matches[b].driver_id
    /\ \E a \in 1..Len(matches) : \E b \in (a + 1)..Len(matches) :
          /\ matches[a].driver_id = matches[b].driver_id
          /\ matches[a].package_id > matches[b].package_id

\* C5: with max_distance <= 0 or a derived cell_size <= 0 the run ends in an
\* error raised before any work: no package is inserted, no driver queried,
\* no list returned.
C5_ConfigurationErrorFirst ==
    (max_distance <= 0 \/ (pc \notin {"brute_force", "start"} /\ cell_size <= 0)) =>
        /\ DOMAIN grid = {}
        /\ ~Returned
        /\ pc = "query" => idx = 1

\* C6: with max_distance > 0 the cell size the grid is built and queried with
\* is never smaller than max_distance.
C6_CellSizeCoversThreshold ==
    (max_distance > 0 /\ pc \notin {"brute_force", "start"}) =>
        cell_size * Scale >= max_distance

\* C7: with ttl_seconds > 0, a call executes the wrapped function exactly when
\* the store holds no unexpired entry for the call's key; a miss stores the
\* result under the key with expiry (time of the store) + ttl_seconds and
\* returns it; a hit returns the stored value and executes nothing.
C7_HitMissContract ==
    [][(ttl_seconds > 0 /\ calls' = calls + 1) =>
          LET key == last_key'
              live == key \in DOMAIN cache /\ now <= cache[key].expiry
          IN  /\ executions' = executions + 1 <=> ~live
              /\ executions' = executions <=> live
              /\ ~live =>
                    /\ key \in DOMAIN cache'
                    /\ cache'[key] = [value |-> JsonDumps(last_result'),
                                      expiry |-> now' + ttl_seconds]
                    /\ last_ret' = last_result'
              /\ live =>
                    /\ last_ret' = JsonLoads(cache[key].value)
                    /\ cache' = cache
                    /\ now' = now]_vars

\* C7 witness: three calls, all of one key, of which two executed the wrapped
\* function: a miss, a hit, and a miss after the entry expired.
C7_Witness ==
    /\ ttl_seconds > 0
    /\ calls = 3
    /\ executions = 2
    /\ Cardinality(DOMAIN cache) = 1

\* C8: once the grid is built every input package is in exactly one bucket,
\* once, and that bucket's key is the mathematical floor of x / cell_size and
\* of y / cell_size.
C8_EachPackageInItsFloorCell ==
    GridBuilt =>
        \A n \in 1..Len(packages) :
            /\ Cardinality(PlacesOf(packages[n])) = 1
            /\ \A place \in PlacesOf(packages[n]) :
                  /\ IsFloorOf(place[1][1], packages[n].x, Scale * cell_size)
                  /\ IsFloorOf(place[1][2], packages[n].y, Scale * cell_size)

\* C8 witness: the grid is built from two packages with a positive cell size,
\* and a package with the negative coordinate x = -1/Scale is in a bucket of
\* cell -1.
C8_Witness ==
    /\ GridBuilt
    /\ cell_size > 0
    /\ Len(packages) = 2
    /\ \E n \in 1..Len(packages) :
          /\ packages[n].x = -1
          /\ \E place \in PlacesOf(packages[n]) : place[1][1] = -1

\* C9: the query phase leaves the grid as it was, and no state holds an empty
\* bucket.
C9_QueryLeavesGridUnchanged ==
    /\ \A key \in DOMAIN grid : grid[key] # <<>>
    /\ [][/\ pc = "query" => grid' = grid
          /\ \A key \in DOMAIN grid' : grid'[key] # <<>>]_vars

\* C9 witness: the run has returned after querying two drivers against a
\* non-empty grid with fewer buckets than the nine keys each driver probes.
C9_Witness ==
    /\ Returned
    /\ Len(drivers) = 2
    /\ DOMAIN grid # {}
    /\ Cardinality(DOMAIN grid) < Len(Offsets) * Len(Offsets)
    /\ matches # <<>>

\* C10: with integer coordinates and max_distance >= 1 the optimized matcher
\* raises nothing and returns the pair set of the brute-force matcher.
C10_IntegerInputsMissNothing ==
    (AllInteger /\ max_distance >= Scale) =>
        /\ pc # "ZeroDivisionError"
        /\ Returned => PairSet(matches) = PairSet(matches_bf)

\* C10 witness: integer coordinates, a non-integer max_distance above 1, and
\* a returned match whose package lies in another cell than its driver.
C10_Witness ==
    /\ Returned
    /\ AllInteger
    /\ max_distance > Scale
    /\ max_distance % Scale # 0
    /\ PairSet(matches) # PairSet(<<>>)
    /\ \E n \in 1..Len(matches) :
          Rank(matches[n])[2] # 0

====
